---- MODULE Spec2Model ----
(***************************************************************************)
(* A model of two parts of the headless UI library:                        *)
(*                                                                         *)
(*   - the transition engine (utils/transition.ts): transition() and       *)
(*     waitForTransition(), driving a node's class list through the        *)
(*     enter/leave phases;                                                 *)
(*   - the Dialog component (components/dialog/dialog.ts): its derived     *)
(*     state, the nested-dialog count, outside click, Escape and the       *)
(*     scroll lock.                                                        *)
(*                                                                         *)
(* The two parts share no state; TransitionSpec and DialogSpec each run    *)
(* one of them and leave the other part's variables alone.                 *)
(***************************************************************************)
EXTENDS Integers, Sequences, FiniteSets, TLC

VARIABLES
    \* ---- transition engine ----
    testMode,     \* process.env.NODE_ENV === 'test'
    classes,      \* the `classes` argument: seven sets of class tokens
    numCalls,     \* how many transition() calls the host makes on the node
    nodeClasses,  \* node.classList
    nodeHidden,   \* the node carries `hidden` / style.display = 'none'
    tr,           \* per transition() call: its closures' state
    \* ---- dialog ----
    isIOS,        \* isIOS(): the platform
    dlg,          \* per Dialog instance: its refs, props and registrations
    listeners,    \* the dialogs whose window listeners are attached, in setup order
    page,         \* the styles of documentElement and body, and window.pageYOffset
    hosted,       \* the Dialog components the host application renders
    pendingFocus, \* the targets of the nextTick(() => target?.focus()) callbacks queued
    event         \* the last DOM event dispatched, with what its handlers did

tvars == <<testMode, classes, numCalls, nodeClasses, nodeHidden, tr>>
dvars == <<isIOS, dlg, listeners, page, hosted, pendingFocus, event>>

(***************************************************************************)
(* Bounds                                                                  *)
(***************************************************************************)
\* The most tokens one class set holds.
MaxSetSize == 1
\* The largest number in a computed transition-duration / transition-delay.
MaxTime == 1
\* The most comma separated values in a computed duration or delay.
MaxLen == 2
\* The most finish-callback runs of one call the model follows.
MaxFinish == 2
\* The largest window.pageYOffset.
MaxScroll == 1
\* The most transitionend events dispatched during one call that the model records.
MaxEvents == 2

Tokens == {"a", "b"}
Calls == {1, 2}
ClassKeys == {"enter", "enterFrom", "enterTo", "leave", "leaveFrom", "leaveTo", "entered"}

ClassSets == {s \in SUBSET Tokens : Cardinality(s) <= MaxSetSize}
ClassConfigs == [ClassKeys -> ClassSets]

(***************************************************************************)
(* Transition engine: pure helpers                                         *)
(***************************************************************************)

\* node.classList.add(...classes); an empty list leaves the node alone.
addClasses(list, cs) == IF cs = {} THEN list ELSE list \cup cs

\* node.classList.remove(...classes)
removeClasses(list, cs) == IF cs = {} THEN list ELSE list \ cs

\* One value of a computed style list: `0.3s` or `75ms`.
CssTimes == [n : 0..MaxTime, unit : {"s", "ms"}]

CssTimeLists == UNION {[1..k -> CssTimes] : k \in 0..MaxLen}

\* v.includes('ms') ? parseFloat(v) : parseFloat(v) * 1000
ToMs(v) == IF v.unit = "ms" THEN v.n ELSE v.n * 1000

\* .map(toMs).sort((a, z) => z - a) and `let [resolvedValue = 0] = ...`
ResolveMs(values) ==
    IF Len(values) = 0 THEN 0
    ELSE LET ms == {ToMs(values[i]) : i \in 1..Len(values)}
         IN  CHOOSE m \in ms : \A x \in ms : x <= m

\* let totalDuration = durationMs + delayMs
TotalDuration(durationMs, delayMs) == durationMs + delayMs

\* Every pair of lists getComputedStyle(node) can give for transitionDuration and
\* transitionDelay, as the pair of values the two resolve to.
ComputedTimes == {<<ResolveMs(d), ResolveMs(l)>> : d \in CssTimeLists, l \in CssTimeLists}

\* match(direction, {enter: ..., leave: ...})
Base(show) == IF show THEN classes.enter ELSE classes.leave
To(show) == IF show THEN classes.enterTo ELSE classes.leaveTo
From(show) == IF show THEN classes.enterFrom ELSE classes.leaveFrom

\* Every token of the seven sets, the argument of the first removeClasses.
AllClasses == UNION {classes[k] : k \in ClassKeys}

(***************************************************************************)
(* Transition engine: state of one call                                    *)
(*   phase      idle (not called yet), started (the synchronous part ran), *)
(*              waiting (the frame ran, waitForTransition waits),          *)
(*              finished (the finish callback ran)                         *)
(*   frame      d.nextFrame is registered and has not fired                *)
(*   waiter     what waitForTransition registered and has not released     *)
(*   called     the `called` flag of once(done)                            *)
(*   doneCount  invocations of the user's done                             *)
(*   finishes   runs of the finish callback given to waitForTransition     *)
(*   cancelled  the returned d.dispose was called                          *)
(*   zero       transition-duration and transition-delay both resolved to  *)
(*              0 when waitForTransition read them                         *)
(*   heard      the targets ("node" or "descendant") of the transitionend  *)
(*              events dispatched since the frame ran, where recorded      *)
(***************************************************************************)
IdleCall ==
    [phase |-> "idle", show |-> FALSE, hasDone |-> FALSE, frame |-> FALSE,
     waiter |-> "none", called |-> FALSE, doneCount |-> 0, finishes |-> 0,
     cancelled |-> FALSE, zero |-> FALSE, heard |-> <<>>]

\* InvokeDone with the user's done also called directly, past the once() wrapper.
InvokeDoneAlsoRaw(r) ==
    LET raw == IF r.hasDone THEN [r EXCEPT !.doneCount = @ + 1] ELSE r
    IN  IF raw.hasDone /\ ~raw.called
        THEN [raw EXCEPT !.called = TRUE, !.doneCount = @ + 1]
        ELSE raw

\* _done = done !== undefined ? once(done) : () => {}
InvokeDone(r) ==
    IF r.hasDone /\ ~r.called
    THEN [r EXCEPT !.called = TRUE, !.doneCount = @ + 1]
    ELSE r

\* The callback transition() hands to waitForTransition: the call's record after it.
FinishRecord(r) ==
    [InvokeDone(r) EXCEPT !.phase = "finished", !.finishes = @ + 1]

\* FinishClasses without the entered classes.
FinishClassesNoEntered(list, show) == removeClasses(list, Base(show))

\* removeClasses(node, ...base); addClasses(node, ...classes.entered)
FinishClasses(list, show) ==
    addClasses(removeClasses(list, Base(show)), classes.entered)

\* StartClasses without the removal of all seven class sets.
StartClassesNoStrip(list, show) == addClasses(list, Base(show) \cup From(show))

\* removeClasses(node, ...all seven); addClasses(node, ...base, ...from)
StartClasses(list, show) ==
    addClasses(removeClasses(list, AllClasses), Base(show) \cup From(show))

\* FrameClasses with the addition made before the removal.
FrameClassesAddFirst(list, show) == removeClasses(addClasses(list, To(show)), From(show))

\* FrameClasses with the from classes left on the node.
FrameClassesKeepFrom(list, show) == addClasses(list, To(show))

\* removeClasses(node, ...from); addClasses(node, ...to)
FrameClasses(list, show) ==
    addClasses(removeClasses(list, From(show)), To(show))

(***************************************************************************)
(* Transition engine: actions                                              *)
(***************************************************************************)

\* transition(node, classes, show, done): the synchronous part.
Start(c, show, hasDone) ==
    /\ c <= numCalls
    /\ tr[c].phase = "idle"
    /\ \A b \in Calls : b < c => tr[b].phase # "idle"
    /\ nodeHidden' = IF show THEN FALSE ELSE nodeHidden
    /\ nodeClasses' = StartClasses(nodeClasses, show)
    /\ tr' = [tr EXCEPT ![c] = [IdleCall EXCEPT !.phase = "started", !.show = show,
                                                !.hasDone = hasDone, !.frame = TRUE]]
    /\ UNCHANGED <<testMode, classes, numCalls>>
    /\ UNCHANGED dvars

\* NextFrame with waitForTransition always waiting for the event or the timer.
NextFrameAlwaysWaits(c, durationMs, delayMs) ==
    /\ tr[c].frame
    /\ nodeClasses' = FrameClasses(nodeClasses, tr[c].show)
    /\ tr' = [tr EXCEPT ![c] =
                [@ EXCEPT !.frame = FALSE, !.phase = "waiting",
                          !.zero = (durationMs = 0 /\ delayMs = 0),
                          !.waiter = IF testMode THEN "timer" ELSE "listener"]]
    /\ UNCHANGED <<testMode, classes, numCalls, nodeHidden>>
    /\ UNCHANGED dvars

\* The d.nextFrame callback, with waitForTransition run to its return.
NextFrame(c, durationMs, delayMs) ==
    /\ tr[c].frame
    /\ LET r == [tr[c] EXCEPT !.frame = FALSE, !.phase = "waiting",
                              !.zero = (durationMs = 0 /\ delayMs = 0)]
           list == FrameClasses(nodeClasses, r.show)
       IN  IF TotalDuration(durationMs, delayMs) # 0
           THEN /\ nodeClasses' = list
                /\ tr' = [tr EXCEPT ![c] =
                            [r EXCEPT !.waiter = IF testMode THEN "timer" ELSE "listener"]]
           ELSE /\ nodeClasses' = FinishClasses(list, r.show)
                /\ tr' = [tr EXCEPT ![c] = FinishRecord(r)]
    /\ UNCHANGED <<testMode, classes, numCalls, nodeHidden>>
    /\ UNCHANGED dvars

\* The listener's `dispose()`: the listener is removed after it ran.
ReleaseWaiter(r) == [r EXCEPT !.waiter = "none"]

\* A transitionend event reaches the node's listener.
TransitionEnd(c, onTarget) ==
    /\ tr[c].waiter = "listener"
    /\ tr[c].finishes < MaxFinish
    /\ IF ~onTarget
       THEN UNCHANGED <<nodeClasses, tr>>
       ELSE /\ nodeClasses' = FinishClasses(nodeClasses, tr[c].show)
            /\ tr' = [tr EXCEPT ![c] = ReleaseWaiter(FinishRecord(tr[c]))]
    /\ UNCHANGED <<testMode, classes, numCalls, nodeHidden>>
    /\ UNCHANGED dvars

\* event.target of a transitionend event that reaches the node.
EventTargets == {"node", "descendant"}

\* Dispatch with the listener running done() for every event that reaches it.
DispatchToAnyTarget(c, target) ==
    /\ tr[c].phase \in {"waiting", "finished"}
    /\ Len(tr[c].heard) < MaxEvents
    /\ tr[c].finishes < MaxFinish
    /\ LET r == [tr[c] EXCEPT !.heard = Append(@, target)]
       IN  IF r.waiter = "listener"
           THEN /\ nodeClasses' = FinishClasses(nodeClasses, r.show)
                /\ tr' = [tr EXCEPT ![c] = ReleaseWaiter(FinishRecord(r))]
           ELSE /\ nodeClasses' = nodeClasses
                /\ tr' = [tr EXCEPT ![c] = r]
    /\ UNCHANGED <<testMode, classes, numCalls, nodeHidden>>
    /\ UNCHANGED dvars

\* A transitionend event is dispatched at the node or below it, once the frame ran,
\* whether or not a listener is attached; its target is recorded. The listener, when
\* attached, returns for a target other than the node, else runs done() and dispose().
Dispatch(c, target) ==
    /\ tr[c].phase \in {"waiting", "finished"}
    /\ Len(tr[c].heard) < MaxEvents
    /\ tr[c].finishes < MaxFinish
    /\ LET r == [tr[c] EXCEPT !.heard = Append(@, target)]
       IN  IF r.waiter = "listener" /\ target = "node"
           THEN /\ nodeClasses' = FinishClasses(nodeClasses, r.show)
                /\ tr' = [tr EXCEPT ![c] = ReleaseWaiter(FinishRecord(r))]
           ELSE /\ nodeClasses' = nodeClasses
                /\ tr' = [tr EXCEPT ![c] = r]
    /\ UNCHANGED <<testMode, classes, numCalls, nodeHidden>>
    /\ UNCHANGED dvars

\* The test-mode timer of totalDuration ms fires.
Timer(c) ==
    /\ tr[c].waiter = "timer"
    /\ nodeClasses' = FinishClasses(nodeClasses, tr[c].show)
    /\ tr' = [tr EXCEPT ![c] = ReleaseWaiter(FinishRecord(tr[c]))]
    /\ UNCHANGED <<testMode, classes, numCalls, nodeHidden>>
    /\ UNCHANGED dvars

\* The handle transition() returns, d.dispose: it clears the pending frame, the
\* only thing registered in d.
Cancel(c) ==
    /\ tr[c].phase # "idle"
    /\ ~tr[c].cancelled
    /\ tr' = [tr EXCEPT ![c] = [@ EXCEPT !.frame = FALSE, !.cancelled = TRUE]]
    /\ UNCHANGED <<testMode, classes, numCalls, nodeClasses, nodeHidden>>
    /\ UNCHANGED dvars

(***************************************************************************)
(* Dialog: values                                                          *)
(***************************************************************************)
\* A sits in the application, B is rendered inside A's content, C is a second
\* dialog of the application beside A.
Dialogs == {"A", "B", "C"}
ParentOf(d) == IF d = "B" THEN "A" ELSE "none"
ChildrenOf(d) == {x \in Dialogs : ParentOf(x) = d}

\* The `open` prop: the Missing sentinel (the default), a boolean, or another string.
Missing == "DC8F892D-2EBD-447C-A4C8-A03058436FF4"
OpenValues == {Missing, "true", "false", "text"}
\* useOpenClosed(): null ("none") or a ref holding State.Open / State.Closed.
AmbientValues == {"none", "Open", "Closed"}

IsBoolean(v) == v \in {"true", "false"}
\* JavaScript truthiness of an `open` value: every string is truthy.
Truthy(v) == v # "false"

\* A style value: the empty string, a keyword, or a length in px.
Unset == [v |-> "", n |-> 0]
Keyword(k) == [v |-> k, n |-> 0]
Px(n) == [v |-> "px", n |-> n]
NegPx(n) == [v |-> "-px", n |-> n]

\* The scrollbar width the lock compensates when a scrollbar is shown.
ScrollbarWidth == 15

\* One Dialog instance. `before` and `beforeStyles` are observations, not fields
\* of the code: the root's overflow, and the root's padding-right and the body's
\* margin-top, as they were when this outermost dialog last opened.
NoDialog ==
    [life |-> "none", error |-> "none", openProp |-> Missing, ambient |-> "none",
     ready |-> FALSE, count |-> 0, containers |-> {}, panel |-> FALSE,
     lock |-> <<>>, before |-> Keyword("not-opened"), backdrop |-> "none",
     beforeStyles |-> [paddingRight |-> Keyword("not-opened"),
                       marginTop |-> Keyword("not-opened")],
     titleId |-> "null", titles |-> {}]

(***************************************************************************)
(* Dialog: setup()'s computed values                                       *)
(***************************************************************************)

\* let open = computed(...): the ambient state when the prop is Missing, else the prop.
ResolvedOpen(r) ==
    IF r.openProp = Missing /\ r.ambient # "none"
    THEN (IF r.ambient = "Open" THEN "true" ELSE "false")
    ELSE r.openProp

\* HasOpen that looks at the prop only.
HasOpenPropOnly(r) == r.openProp # Missing

\* let hasOpen = props.open !== Missing || usesOpenClosedState !== null
HasOpen(r) == r.openProp # Missing \/ r.ambient # "none"

\* The two validations of setup(): the error it throws, or "none".
SetupError(r) ==
    IF ~HasOpen(r) THEN "forgot-open"
    ELSE IF ~IsBoolean(ResolvedOpen(r)) THEN "not-boolean"
    ELSE "none"

\* let dialogState = computed(() => !ready ? Closed : open ? Open : Closed)
DialogState(r) ==
    IF ~r.ready THEN "Closed"
    ELSE IF Truthy(ResolvedOpen(r)) THEN "Open" ELSE "Closed"

\* let enabled = computed(() => dialogState.value === DialogStates.Open)
Enabled(r) == DialogState(r) = "Open"

\* HasNestedDialogs with the dialog itself left out of the count.
HasNestedDialogsOffByOne(r) == r.count > 2

\* let hasNestedDialogs = computed(() => nestedDialogCount.value > 1)
HasNestedDialogs(r) == r.count > 1

\* let hasParentDialog = inject(DialogContext, null) !== null
HasParentDialog(d) == ParentOf(d) # "none"

\* let position = computed(() => (!hasNestedDialogs.value ? 'leaf' : 'parent'))
Position(r) == IF ~HasNestedDialogs(r) THEN "leaf" ELSE "parent"

\* The rendered element: role and aria-modal of ourProps.
Rendered(r) ==
    [role |-> "dialog",
     ariaModal |-> IF DialogState(r) = "Open" THEN "true" ELSE "undefined"]

\* FocusTrap.features: None, the single features, and All of them.
FeaturesNone == {}
FeaturesAll == {"InitialFocus", "TabLock", "FocusLock", "RestoreFocus"}

\* FocusTrapFeatures with the two positions taken for each other.
FocusTrapFeaturesSwapped(r) ==
    IF Enabled(r)
    THEN (IF Position(r) = "leaf" THEN {"RestoreFocus"} ELSE FeaturesAll \ {"FocusLock"})
    ELSE FeaturesNone

\* The `features` prop the render function passes to FocusTrap.
FocusTrapFeatures(r) ==
    IF Enabled(r)
    THEN (IF Position(r) = "parent" THEN {"RestoreFocus"} ELSE FeaturesAll \ {"FocusLock"})
    ELSE FeaturesNone

(***************************************************************************)
(* Stack provider: a message goes to the instance's own onUpdate and to    *)
(* the onUpdate of every provider enclosing it.                            *)
(***************************************************************************)
StackScope(d) == {d} \cup {x \in Dialogs : x = ParentOf(d)}

\* onUpdate, StackMessage.Add
OnAdd(r, element) == [r EXCEPT !.containers = @ \cup {element}, !.count = @ + 1]

\* OnRemove without the decrement of nestedDialogCount.
OnRemoveKeepsCount(r, element) == [r EXCEPT !.containers = @ \ {element}]

\* onUpdate, StackMessage.Remove
OnRemove(r, element) == [r EXCEPT !.containers = @ \ {element}, !.count = @ - 1]

Notify(D, d, message) ==
    [x \in Dialogs |->
        IF x \in StackScope(d)
        THEN (IF message = "Add" THEN OnAdd(D[x], d) ELSE OnRemove(D[x], d))
        ELSE D[x]]

\* watch(enabled, ...) of the stack provider: Add when it becomes true, Remove when
\* it was true and becomes false; onUnmounted: Remove when still enabled.
StackWatch(D, d, was, is) ==
    IF is /\ ~was THEN Notify(D, d, "Add")
    ELSE IF ~is /\ was THEN Notify(D, d, "Remove")
    ELSE D

(***************************************************************************)
(* Scroll lock                                                             *)
(***************************************************************************)

\* node.style.getPropertyValue(property): the value of the CSS property of that
\* name. `overflow` names one; `paddingRight` and `marginTop` are attribute names of
\* the style object, not CSS property names, and read as the empty string.
GetPropertyValue(pg, property) ==
    IF property = "overflow" THEN pg.overflow ELSE Unset

\* Object.assign(node.style, { [property]: value })
AssignStyle(pg, property, value) == [pg EXCEPT ![property] = value]

\* StylePatch that reads the previous value after assigning the new one.
StylePatchReadsAfterWrite(pg, property, value) ==
    [page |-> AssignStyle(pg, property, value),
     cleanup |-> [kind |-> "style", property |-> property,
                  previous |-> GetPropertyValue(AssignStyle(pg, property, value), property)]]

\* style(node, property, value): the page after it and the cleanup it registers.
StylePatch(pg, property, value) ==
    [page |-> AssignStyle(pg, property, value),
     cleanup |-> [kind |-> "style", property |-> property,
                  previous |-> GetPropertyValue(pg, property)]]

\* One registered cleanup, run.
RunCleanup(pg, c) ==
    IF c.kind = "style" THEN AssignStyle(pg, c.property, c.previous)
    ELSE \* window.scrollTo(0, window.pageYOffset + scrollPosition)
         [pg EXCEPT !.yOffset = IF @ + c.previous.n > MaxScroll THEN MaxScroll
                                 ELSE @ + c.previous.n]

\* d.dispose(): every registered cleanup, the last registered first.
RECURSIVE Dispose(_, _)
Dispose(pg, cleanups) ==
    IF cleanups = <<>> THEN pg
    ELSE Dispose(RunCleanup(pg, cleanups[Len(cleanups)]),
                 SubSeq(cleanups, 1, Len(cleanups) - 1))

\* The body of the scroll lock effect once past its guards: the page after it
\* and the cleanups held by d.
ScrollLock(pg, scrollbar) ==
    LET scrollPosition == pg.yOffset
        s1 == StylePatch(pg, "overflow", Keyword("hidden"))
        s2 == IF scrollbar
              THEN StylePatch(s1.page, "paddingRight", Px(ScrollbarWidth))
              ELSE [page |-> s1.page, cleanup |-> <<>>]
        c2 == IF scrollbar THEN <<s1.cleanup, s2.cleanup>> ELSE <<s1.cleanup>>
        s3 == StylePatch(s2.page, "marginTop", NegPx(scrollPosition))
    IN  IF isIOS
        THEN [page |-> [s3.page EXCEPT !.yOffset = 0],
              cleanups |-> c2 \o <<s3.cleanup,
                                   [kind |-> "scroll", property |-> "scroll",
                                    previous |-> Px(scrollPosition)]>>]
        ELSE [page |-> s2.page, cleanups |-> c2]

\* LockEffect without the return for a dialog that has a parent dialog.
LockEffectIgnoresParent(D, pg, d, was, is, scrollbar) ==
    LET released == IF was THEN Dispose(pg, D[d].lock) ELSE pg
        locked == ScrollLock(released, scrollbar)
    IN  IF is = was THEN [dlg |-> D, page |-> pg]
        ELSE IF is
        THEN [dlg |-> [D EXCEPT ![d].lock = locked.cleanups], page |-> locked.page]
        ELSE [dlg |-> [D EXCEPT ![d].lock = <<>>], page |-> released]

\* The scroll lock watchEffect of dialog d after dialogState went from `was` to
\* `is` (both as enabled flags): onInvalidate's dispose, then the effect's body.
LockEffect(D, pg, d, was, is, scrollbar) ==
    LET released == IF was THEN Dispose(pg, D[d].lock) ELSE pg
        locked == ScrollLock(released, scrollbar)
    IN  IF is = was THEN [dlg |-> D, page |-> pg]
        ELSE IF is /\ ~HasParentDialog(d)
        THEN [dlg |-> [D EXCEPT ![d].lock = locked.cleanups], page |-> locked.page]
        ELSE [dlg |-> [D EXCEPT ![d].lock = <<>>], page |-> released]

\* Everything that reacts to a change of dialog d's refs or props: the stack
\* provider's watcher (flush: 'sync'), then the scroll lock effect.
React(D0, D1, pg, d, scrollbar) ==
    LET was == Enabled(D0[d])
        is == Enabled(D1[d])
        after == LockEffect(StackWatch(D1, d, was, is), pg, d, was, is, scrollbar)
        seen == IF is /\ ~was /\ ~HasParentDialog(d) THEN pg.overflow
                ELSE D0[d].before
        seenStyles == IF is /\ ~was /\ ~HasParentDialog(d)
                      THEN [paddingRight |-> pg.paddingRight, marginTop |-> pg.marginTop]
                      ELSE IF ~is THEN NoDialog.beforeStyles
                      ELSE D0[d].beforeStyles
    IN  [dlg |-> [after.dlg EXCEPT ![d].before = seen, ![d].beforeStyles = seenStyles],
         page |-> after.page]

(***************************************************************************)
(* Dialog: lifecycle and host actions                                      *)
(***************************************************************************)
\* No event is being handled: the state between two events.
NoEvent ==
    [kind |-> "none", target |-> <<"none", "">>, prevented |-> FALSE, closed |-> <<>>,
     focus |-> <<>>]

Alive(r) == r.life \in {"created", "mounted"}

\* No instance is between its setup() and its onMounted hook: mounting is one
\* synchronous pass, in which only setups and mounts of the same tree happen.
Settled == event = NoEvent /\ \A x \in Dialogs : dlg[x].life \in {"none", "mounted"}

\* No setup() has just thrown.
NoneFailed == \A x \in Dialogs : dlg[x].life # "failed"

\* setup(): the validations throw, or the instance is created and its window
\* listeners are attached.
Setup(d, openProp, ambient) ==
    /\ event = NoEvent
    /\ NoneFailed
    /\ d \in hosted
    /\ dlg[d].life = "none"
    /\ HasParentDialog(d) => Alive(dlg[ParentOf(d)])
    /\ LET r == [NoDialog EXCEPT !.openProp = openProp, !.ambient = ambient]
           err == SetupError(r)
       IN  IF err # "none"
           THEN /\ dlg' = [dlg EXCEPT ![d] = [r EXCEPT !.life = "failed", !.error = err]]
                /\ UNCHANGED listeners
           ELSE /\ dlg' = [dlg EXCEPT ![d] = [r EXCEPT !.life = "created"]]
                /\ listeners' = Append(listeners, d)
    /\ UNCHANGED <<isIOS, page, hosted, pendingFocus, event>>
    /\ UNCHANGED tvars

\* The instance whose setup() threw is dropped.
Discard(d) ==
    /\ dlg[d].life = "failed"
    /\ dlg' = [dlg EXCEPT ![d] = NoDialog]
    /\ UNCHANGED <<isIOS, listeners, page, hosted, pendingFocus, event>>
    /\ UNCHANGED tvars

\* onMounted: ready.value = true, then the hooks and effects that follow from it.
Mount(d, scrollbar) ==
    /\ event = NoEvent
    /\ NoneFailed
    /\ dlg[d].life = "created"
    /\ \A x \in ChildrenOf(d) : dlg[x].life # "created"
    /\ LET D1 == [dlg EXCEPT ![d] = [@ EXCEPT !.life = "mounted", !.ready = TRUE]]
           after == React(dlg, D1, page, d, scrollbar)
       IN  /\ dlg' = after.dlg
           /\ page' = after.page
    /\ UNCHANGED <<isIOS, listeners, hosted, pendingFocus, event>>
    /\ UNCHANGED tvars

\* The host changes the `open` prop: to a boolean, to another string, or to
\* undefined, which the prop's default turns into Missing.
SetOpen(d, value, scrollbar) ==
    /\ Settled
    /\ Alive(dlg[d])
    /\ value # dlg[d].openProp
    /\ LET D1 == [dlg EXCEPT ![d].openProp = value]
           after == React(dlg, D1, page, d, scrollbar)
       IN  /\ dlg' = after.dlg
           /\ page' = after.page
    /\ UNCHANGED <<isIOS, listeners, hosted, pendingFocus, event>>
    /\ UNCHANGED tvars

\* The ambient open/closed state changes, for a dialog that reads it.
SetAmbient(d, value, scrollbar) ==
    /\ Settled
    /\ Alive(dlg[d])
    /\ dlg[d].openProp = Missing
    /\ dlg[d].ambient # "none"
    /\ value \in {"Open", "Closed"}
    /\ value # dlg[d].ambient
    /\ LET D1 == [dlg EXCEPT ![d].ambient = value]
           after == React(dlg, D1, page, d, scrollbar)
       IN  /\ dlg' = after.dlg
           /\ page' = after.page
    /\ UNCHANGED <<isIOS, listeners, hosted, pendingFocus, event>>
    /\ UNCHANGED tvars

\* One instance unmounts: the stack provider's onUnmounted, the effects' cleanups.
UnmountOne(D, pg, d) ==
    LET was == Enabled(D[d])
        D1 == IF was THEN Notify(D, d, "Remove") ELSE D
        pg1 == IF was THEN Dispose(pg, D[d].lock) ELSE pg
    IN  [dlg |-> [D1 EXCEPT ![d] = NoDialog], page |-> pg1]

RemoveFrom(seq, gone) == SelectSeq(seq, LAMBDA x : x \notin gone)

\* The host unmounts dialog d; the dialogs rendered inside it unmount first.
Unmount(d) ==
    /\ Settled
    /\ dlg[d].life = "mounted"
    /\ LET kids == {x \in ChildrenOf(d) : dlg[x].life = "mounted"}
           k == IF kids = {} THEN [dlg |-> dlg, page |-> page]
                ELSE UnmountOne(dlg, page, CHOOSE x \in kids : TRUE)
           after == UnmountOne(k.dlg, k.page, d)
       IN  /\ dlg' = [x \in Dialogs |->
                        IF x \in ChildrenOf(d) THEN NoDialog ELSE after.dlg[x]]
           /\ page' = after.page
           /\ listeners' = RemoveFrom(listeners, {d} \cup ChildrenOf(d))
    /\ UNCHANGED <<isIOS, hosted, pendingFocus, event>>
    /\ UNCHANGED tvars

\* DialogPanel renders: its root node becomes api.panelRef.
PanelMount(d) ==
    /\ event = NoEvent
    /\ NoneFailed
    /\ Alive(dlg[d])
    /\ ~dlg[d].panel
    /\ dlg' = [dlg EXCEPT ![d].panel = TRUE]
    /\ UNCHANGED <<isIOS, listeners, page, hosted, pendingFocus, event>>
    /\ UNCHANGED tvars

\* DialogPanel unmounts: api.panelRef is null again.
PanelUnmount(d) ==
    /\ Settled
    /\ dlg[d].panel
    /\ dlg' = [dlg EXCEPT ![d].panel = FALSE]
    /\ UNCHANGED <<isIOS, listeners, page, hosted, pendingFocus, event>>
    /\ UNCHANGED tvars

\* BackdropMount without the test of api.panelRef.
BackdropMountUnchecked(d) ==
    /\ event = NoEvent
    /\ NoneFailed
    /\ Alive(dlg[d])
    /\ dlg[d].backdrop = "none"
    /\ dlg' = [dlg EXCEPT ![d].backdrop = "mounted"]
    /\ UNCHANGED <<isIOS, listeners, page, hosted, pendingFocus, event>>
    /\ UNCHANGED tvars

\* DialogBackdrop's onMounted hook: it throws when api.panelRef holds no node.
BackdropMount(d) ==
    /\ event = NoEvent
    /\ NoneFailed
    /\ Alive(dlg[d])
    /\ dlg[d].backdrop = "none"
    /\ dlg' = [dlg EXCEPT ![d].backdrop = IF ~dlg[d].panel THEN "threw" ELSE "mounted"]
    /\ UNCHANGED <<isIOS, listeners, page, hosted, pendingFocus, event>>
    /\ UNCHANGED tvars

\* The DialogBackdrop is taken out of the tree again, whether its hook threw or not.
BackdropUnmount(d) ==
    /\ Settled
    /\ dlg[d].backdrop # "none"
    /\ dlg' = [dlg EXCEPT ![d].backdrop = "none"]
    /\ UNCHANGED <<isIOS, listeners, page, hosted, pendingFocus, event>>
    /\ UNCHANGED tvars

\* The ids of the DialogTitle components an application renders in one dialog.
TitleIds == {"t1", "t2"}

\* api.setTitleId(id): if (titleId.value === id) return; titleId.value = id
SetTitleId(r, id) == IF r.titleId = id THEN r ELSE [r EXCEPT !.titleId = id]

\* DialogTitle's onMounted hook: api.setTitleId(props.id)
TitleMount(d, id) ==
    /\ event = NoEvent
    /\ NoneFailed
    /\ Alive(dlg[d])
    /\ id \notin dlg[d].titles
    /\ dlg' = [dlg EXCEPT ![d] = [SetTitleId(@, id) EXCEPT !.titles = @ \cup {id}]]
    /\ UNCHANGED <<isIOS, listeners, page, hosted, pendingFocus, event>>
    /\ UNCHANGED tvars

\* DialogTitle's onUnmounted hook: api.setTitleId(null)
TitleUnmount(d, id) ==
    /\ Settled
    /\ id \in dlg[d].titles
    /\ dlg' = [dlg EXCEPT ![d] = [SetTitleId(@, "null") EXCEPT !.titles = @ \ {id}]]
    /\ UNCHANGED <<isIOS, listeners, page, hosted, pendingFocus, event>>
    /\ UNCHANGED tvars

(***************************************************************************)
(* The document: the application root, a third party root, the portal root *)
(* with one portal per dialog, each dialog's root and panel, and each      *)
(* dialog's marker node in the tree where the Dialog component sits.       *)
(***************************************************************************)
Node(kind, d) == <<kind, d>>
Body == Node("body", "")
App == Node("app", "")
Other == Node("other", "")
PortalRoot == Node("portal-root", "")

ParentNode(n) ==
    CASE n[1] \in {"app", "other", "portal-root"} -> Body
      [] n[1] = "portal" -> PortalRoot
      [] n[1] = "root" -> Node("portal", n[2])
      [] n[1] = "panel" -> Node("root", n[2])
      [] n[1] = "main" -> IF HasParentDialog(n[2]) THEN Node("root", ParentOf(n[2])) ELSE App
      [] OTHER -> Body

RECURSIVE Contains(_, _)
\* container.contains(node)
Contains(container, n) ==
    IF n = container THEN TRUE
    ELSE IF n = Body THEN FALSE
    ELSE Contains(container, ParentNode(n))

\* Whether the node is in the document.
InDocument(D, n) ==
    CASE n[1] \in {"body", "app", "other"} -> TRUE
      [] n[1] = "portal-root" -> \E x \in Dialogs : D[x].life = "mounted"
      [] n[1] \in {"portal", "root", "main"} -> D[n[2]].life = "mounted"
      [] n[1] = "panel" -> D[n[2]].panel
      [] OTHER -> FALSE

\* What a click can land on: the page, and the visible parts of the open dialogs.
ClickTargets(D) ==
    {App, Other}
        \cup {Node("root", x) : x \in {y \in Dialogs : Enabled(D[y])}}
        \cup {Node("panel", x) : x \in {y \in Dialogs : Enabled(D[y]) /\ D[y].panel}}

\* querySelectorAll('body > *, [data-headlessui-portal]')
RootCandidates(D) ==
    {n \in {App, Other, PortalRoot} \cup {Node("portal", x) : x \in Dialogs} :
        InDocument(D, n)}

\* resolveAllowedContainers()
ResolveAllowedContainers(D, d) ==
    LET rootContainers ==
            {c \in RootCandidates(D) :
                /\ ~(InDocument(D, Node("main", d)) /\ Contains(c, Node("main", d)))
                /\ ~(D[d].panel /\ Contains(c, Node("panel", d)))}
        own == IF D[d].panel THEN {Node("panel", d)}
               ELSE IF InDocument(D, Node("root", d)) THEN {Node("root", d)}
               ELSE {}
    IN  rootContainers \cup own

\* The target lies outside every allowed container of dialog d.
Outside(D, d, target) ==
    \A c \in ResolveAllowedContainers(D, d) : ~Contains(c, target)

\* OutsideClickEnabled without the test for nested dialogs.
OutsideClickEnabledWhenOpen(r) == DialogState(r) = "Open"

\* The `enabled` argument of useOutsideClick.
OutsideClickEnabled(r) == DialogState(r) = "Open" /\ ~HasNestedDialogs(r)

\* The outside click callback of dialog d runs for this click: api.close(), then
\* nextTick(() => target?.focus()).
ClickCloses(D, d, target) == OutsideClickEnabled(D[d]) /\ Outside(D, d, target)

\* The keydown listener of dialog d gets past its four returns.
EscapeCloses(r, key, prevented) ==
    /\ ~prevented
    /\ key = "Escape"
    /\ DialogState(r) = "Open"
    /\ ~HasNestedDialogs(r)

(***************************************************************************)
(* Dialog: events                                                          *)
(***************************************************************************)

\* A click on `target`: the outside click handler of every dialog runs, in the
\* order the listeners were attached.
Click(target) ==
    /\ Settled
    /\ target \in ClickTargets(dlg)
    /\ LET closed == SelectSeq(listeners, LAMBDA d : ClickCloses(dlg, d, target))
       IN  /\ event' = [kind |-> "click", target |-> target, prevented |-> FALSE,
                        closed |-> closed, focus |-> <<>>]
           /\ pendingFocus' = [i \in 1..Len(closed) |-> target]
    /\ UNCHANGED <<isIOS, dlg, listeners, page, hosted>>
    /\ UNCHANGED tvars

\* A keydown on the window: the keydown handler of every dialog runs in the order
\* the listeners were attached; the first that closes prevents the default.
KeyDown(key, prevented) ==
    /\ Settled
    /\ listeners # <<>>
    /\ LET able == SelectSeq(listeners, LAMBDA d : EscapeCloses(dlg[d], key, prevented))
           closed == IF able = <<>> THEN <<>> ELSE <<Head(able)>>
       IN  event' = [kind |-> "keydown", target |-> Node("key", key),
                     prevented |-> prevented, closed |-> closed, focus |-> <<>>]
    /\ UNCHANGED <<isIOS, dlg, listeners, page, hosted, pendingFocus>>
    /\ UNCHANGED tvars

\* OverlayClick with close() also taking the dialog's open value to false.
OverlayClickSetsOpen(d, direct) ==
    /\ Settled
    /\ Enabled(dlg[d])
    /\ event' = [kind |-> "overlay", target |-> Node("overlay", d), prevented |-> direct,
                 closed |-> IF direct THEN <<d>> ELSE <<>>, focus |-> <<>>]
    /\ dlg' = IF direct THEN [dlg EXCEPT ![d].openProp = "false"] ELSE dlg
    /\ UNCHANGED <<isIOS, listeners, page, hosted, pendingFocus>>
    /\ UNCHANGED tvars

\* DialogOverlay's handleClick, for the overlay rendered in an open dialog: it
\* returns for a click that bubbled from a child (event.target !== currentTarget),
\* else prevents the default and calls api.close().
OverlayClick(d, direct) ==
    /\ Settled
    /\ Enabled(dlg[d])
    /\ event' = [kind |-> "overlay", target |-> Node("overlay", d), prevented |-> direct,
                 closed |-> IF direct THEN <<d>> ELSE <<>>, focus |-> <<>>]
    /\ UNCHANGED <<isIOS, dlg, listeners, page, hosted, pendingFocus>>
    /\ UNCHANGED tvars

\* The IntersectionObserver callback of an open dialog, with one entry for the
\* dialog's element: api.close() when its bounding rect is all zero.
Intersect(d, zeroRect) ==
    /\ Settled
    /\ Enabled(dlg[d])
    /\ event' = [kind |-> "intersection", target |-> Node("root", d), prevented |-> FALSE,
                 closed |-> IF zeroRect THEN <<d>> ELSE <<>>, focus |-> <<>>]
    /\ UNCHANGED <<isIOS, dlg, listeners, page, hosted, pendingFocus>>
    /\ UNCHANGED tvars

\* The next tick: every queued focus callback runs.
Tick ==
    /\ pendingFocus # <<>>
    /\ event' = [event EXCEPT !.focus = pendingFocus]
    /\ pendingFocus' = <<>>
    /\ UNCHANGED <<isIOS, dlg, listeners, page, hosted>>
    /\ UNCHANGED tvars

\* The event's handlers and callbacks are done.
EndEvent ==
    /\ event # NoEvent
    /\ pendingFocus = <<>>
    /\ event' = NoEvent
    /\ UNCHANGED <<isIOS, dlg, listeners, page, hosted, pendingFocus>>
    /\ UNCHANGED tvars

\* The page before any dialog: no inline style, or the host's own inline styles;
\* scrolled to the top or further down.
PageInits ==
    {[overflow |-> Unset, paddingRight |-> Unset, marginTop |-> Unset, yOffset |-> 0],
     [overflow |-> Keyword("scroll"), paddingRight |-> Px(4), marginTop |-> Px(4),
      yOffset |-> MaxScroll]}

DialogInit ==
    /\ isIOS \in BOOLEAN
    /\ dlg = [d \in Dialogs |-> NoDialog]
    /\ listeners = <<>>
    /\ page \in PageInits
    /\ isIOS => page.overflow # Unset
    /\ hosted \in {{"A", "B"}, {"A", "C"}}
    /\ pendingFocus = <<>>
    /\ event = NoEvent
    /\ testMode = FALSE
    /\ classes = [k \in ClassKeys |-> {}]
    /\ numCalls = 0
    /\ nodeClasses = {}
    /\ nodeHidden = FALSE
    /\ tr = [c \in Calls |-> IdleCall]

DialogNext ==
    \/ \E d \in Dialogs, o \in OpenValues, a \in AmbientValues : Setup(d, o, a)
    \/ \E d \in Dialogs : Discard(d)
    \/ \E d \in Dialogs, sb \in BOOLEAN : Mount(d, sb)
    \/ \E d \in Dialogs, v \in OpenValues, sb \in BOOLEAN : SetOpen(d, v, sb)
    \/ \E d \in Dialogs, v \in {"Open", "Closed"}, sb \in BOOLEAN : SetAmbient(d, v, sb)
    \/ \E d \in Dialogs : Unmount(d)

\* The dialogs with their panels and the events of the window, on a page that has
\* no inline style, no scrollbar and is not an iOS page.
EventInit ==
    /\ DialogInit
    /\ ~isIOS
    /\ page.overflow = Unset

EventNext ==
    \/ \E d \in Dialogs, o \in OpenValues, a \in AmbientValues : Setup(d, o, a)
    \/ \E d \in Dialogs : Discard(d)
    \/ \E d \in Dialogs : Mount(d, FALSE)
    \/ \E d \in Dialogs, v \in OpenValues : SetOpen(d, v, FALSE)
    \/ \E d \in Dialogs, v \in {"Open", "Closed"} : SetAmbient(d, v, FALSE)
    \/ \E d \in Dialogs : Unmount(d)
    \/ \E d \in Dialogs : PanelMount(d)
    \/ \E d \in Dialogs : PanelUnmount(d)
    \/ \E t \in ClickTargets(dlg) : Click(t)
    \/ \E k \in {"Escape", "Enter"} : KeyDown(k, FALSE)
    \/ KeyDown("Escape", TRUE)
    \/ Tick
    \/ EndEvent

\* A dialog with a dialog nested in it, their panels, one title each, and everything
\* that calls close(): the window's click and keydown listeners, the overlay's
\* click handler and the intersection observer.
CloseInit ==
    /\ EventInit
    /\ hosted = {"A", "B"}

CloseNext ==
    \/ \E d \in Dialogs, o \in OpenValues, a \in AmbientValues : Setup(d, o, a)
    \/ \E d \in Dialogs : Discard(d)
    \/ \E d \in Dialogs : Mount(d, FALSE)
    \/ \E d \in Dialogs, v \in OpenValues : SetOpen(d, v, FALSE)
    \/ \E d \in Dialogs, v \in {"Open", "Closed"} : SetAmbient(d, v, FALSE)
    \/ \E d \in Dialogs : Unmount(d)
    \/ \E d \in Dialogs : PanelMount(d)
    \/ \E d \in Dialogs : PanelUnmount(d)
    \/ \E d \in Dialogs : TitleMount(d, "t1")
    \/ \E d \in Dialogs : TitleUnmount(d, "t1")
    \/ \E t \in ClickTargets(dlg) : Click(t)
    \/ \E k \in {"Escape", "Enter"} : KeyDown(k, FALSE)
    \/ \E d \in Dialogs, direct \in BOOLEAN : OverlayClick(d, direct)
    \/ \E d \in Dialogs, zeroRect \in BOOLEAN : Intersect(d, zeroRect)
    \/ Tick
    \/ EndEvent

TransitionInit ==
    /\ testMode \in BOOLEAN
    /\ classes \in ClassConfigs
    /\ numCalls = 1
    /\ nodeClasses \in SUBSET Tokens
    /\ nodeHidden \in BOOLEAN
    /\ tr = [c \in Calls |-> IdleCall]
    /\ isIOS = FALSE
    /\ dlg = [d \in Dialogs |-> NoDialog]
    /\ listeners = <<>>
    /\ page = [overflow |-> Unset, paddingRight |-> Unset, marginTop |-> Unset, yOffset |-> 0]
    /\ hosted = {}
    /\ pendingFocus = <<>>
    /\ event = NoEvent

TransitionNext ==
    \/ \E c \in Calls, show \in BOOLEAN, hasDone \in BOOLEAN : Start(c, show, hasDone)
    \/ \E c \in Calls, t \in ComputedTimes : NextFrame(c, t[1], t[2])
    \/ \E c \in Calls, onTarget \in BOOLEAN : TransitionEnd(c, onTarget)
    \/ \E c \in Calls : Timer(c)
    \/ \E c \in Calls : Cancel(c)

vars == <<tvars, dvars>>

TransitionSpec == TransitionInit /\ [][TransitionNext]_vars

\* The class configurations of a component that uses one base class for both
\* directions and ends a leave where an enter begins.
PairedConfigs ==
    {k \in ClassConfigs : k.enter = k.leave /\ k.enterFrom = k.leaveTo}

\* One transition() call on a clean node, with every transitionend event that is
\* dispatched while or after it waits.
ListenInit ==
    /\ testMode \in BOOLEAN
    /\ classes \in PairedConfigs
    /\ numCalls = 1
    /\ nodeClasses = {}
    /\ nodeHidden = FALSE
    /\ tr = [c \in Calls |-> IdleCall]
    /\ isIOS = FALSE
    /\ dlg = [d \in Dialogs |-> NoDialog]
    /\ listeners = <<>>
    /\ page = [overflow |-> Unset, paddingRight |-> Unset, marginTop |-> Unset, yOffset |-> 0]
    /\ hosted = {}
    /\ pendingFocus = <<>>
    /\ event = NoEvent

ListenNext ==
    \/ \E c \in Calls, show \in BOOLEAN, hasDone \in BOOLEAN : Start(c, show, hasDone)
    \/ \E c \in Calls, t \in ComputedTimes : NextFrame(c, t[1], t[2])
    \/ \E c \in Calls, target \in EventTargets : Dispatch(c, target)
    \/ \E c \in Calls : Timer(c)
    \/ \E c \in Calls : Cancel(c)

ListenSpec == ListenInit /\ [][ListenNext]_vars

\* Two transition() calls on one node: the second interrupts the first in
\* whatever phase the first has reached.
InterruptInit ==
    /\ testMode \in BOOLEAN
    /\ classes \in PairedConfigs
    /\ numCalls = 2
    /\ nodeClasses = {}
    /\ nodeHidden = FALSE
    /\ tr = [c \in Calls |-> IdleCall]
    /\ isIOS = FALSE
    /\ dlg = [d \in Dialogs |-> NoDialog]
    /\ listeners = <<>>
    /\ page = [overflow |-> Unset, paddingRight |-> Unset, marginTop |-> Unset, yOffset |-> 0]
    /\ hosted = {}
    /\ pendingFocus = <<>>
    /\ event = NoEvent

\* The calls pass no done callback: it has no part in the class changes.
InterruptNext ==
    \/ \E c \in Calls, show \in BOOLEAN : Start(c, show, FALSE)
    \/ \E c \in Calls, t \in ComputedTimes : NextFrame(c, t[1], t[2])
    \/ \E c \in Calls, onTarget \in BOOLEAN : TransitionEnd(c, onTarget)
    \/ \E c \in Calls : Timer(c)
    \/ \E c \in Calls : Cancel(c)

InterruptSpec == InterruptInit /\ [][InterruptNext]_vars

DialogSpec == DialogInit /\ [][DialogNext]_vars

EventSpec == EventInit /\ [][EventNext]_vars

CloseSpec == CloseInit /\ [][CloseNext]_vars

\* One dialog and the sub-components rendered inside it.
PartsInit ==
    /\ isIOS = FALSE
    /\ dlg = [d \in Dialogs |-> NoDialog]
    /\ listeners = <<>>
    /\ page = [overflow |-> Unset, paddingRight |-> Unset, marginTop |-> Unset, yOffset |-> 0]
    /\ hosted = {"A"}
    /\ pendingFocus = <<>>
    /\ event = NoEvent
    /\ testMode = FALSE
    /\ classes = [k \in ClassKeys |-> {}]
    /\ numCalls = 0
    /\ nodeClasses = {}
    /\ nodeHidden = FALSE
    /\ tr = [c \in Calls |-> IdleCall]

PartsNext ==
    \/ \E d \in Dialogs, o \in OpenValues, a \in AmbientValues : Setup(d, o, a)
    \/ \E d \in Dialogs : Discard(d)
    \/ \E d \in Dialogs : Mount(d, FALSE)
    \/ \E d \in Dialogs, v \in OpenValues : SetOpen(d, v, FALSE)
    \/ \E d \in Dialogs : Unmount(d)
    \/ \E d \in Dialogs : PanelMount(d)
    \/ \E d \in Dialogs : PanelUnmount(d)
    \/ \E d \in Dialogs : BackdropMount(d)
    \/ \E d \in Dialogs : BackdropUnmount(d)
    \/ \E d \in Dialogs, id \in TitleIds : TitleMount(d, id)
    \/ \E d \in Dialogs, id \in TitleIds : TitleUnmount(d, id)

PartsSpec == PartsInit /\ [][PartsNext]_vars

(***************************************************************************)
(* Transition engine: claims                                               *)
(***************************************************************************)

\* Call c was made and nothing of it is scheduled any more: no pending frame, no
\* listener, no timer.
Terminated(c) == tr[c].phase # "idle" /\ ~tr[c].frame /\ tr[c].waiter = "none"

\* Call c ran to its finish callback and no other call touched the node.
CompletedAlone(c) ==
    /\ tr[c].phase = "finished"
    /\ \A b \in Calls \ {c} : tr[b].phase = "idle"

\* C1: every transition() call with a done callback has invoked done exactly once
\* when it has ended, whether it ended by finishing or by its cancel handle.
C1_DoneExactlyOnce ==
    \A c \in Calls : (tr[c].hasDone /\ Terminated(c)) => tr[c].doneCount = 1

\* C2: in every state of every interleaving of frame, events, timer, fast path and
\* cancel, the user's done has been invoked at most once per call.
C2_DoneAtMostOnce == \A c \in Calls : tr[c].doneCount <= 1

\* C2's case: done was invoked, on a call whose cancel handle was called too.
C2_Witness ==
    \E c \in Calls : tr[c].doneCount = 1 /\ tr[c].cancelled /\ tr[c].finishes = 1

\* C3 as stated: after a completed enter transition the node carries no enter,
\* enterFrom or enterTo token and every entered token.
C3_EnterLeavesNoPhaseClass ==
    \A c \in Calls : (CompletedAlone(c) /\ tr[c].show) =>
        /\ nodeClasses \cap (classes.enter \cup classes.enterFrom \cup classes.enterTo) = {}
        /\ classes.entered \subseteq nodeClasses

\* C3, amended: after a completed enter transition the node carries every entered
\* token and every enterTo token that is not an enter token, and no enter, enterFrom
\* or enterTo token besides those.
C3_EnterCompleted ==
    \A c \in Calls : (CompletedAlone(c) /\ tr[c].show) =>
        LET kept == classes.entered \cup (classes.enterTo \ classes.enter)
        IN  /\ kept \subseteq nodeClasses
            /\ (nodeClasses \cap (classes.enter \cup classes.enterFrom \cup classes.enterTo))
                   \subseteq kept

\* C3's case: an enter transition completed with overlapping class sets, with an
\* enterFrom token gone and an enterTo token still on the node.
C3_Witness ==
    \E c \in Calls :
        /\ CompletedAlone(c) /\ tr[c].show
        /\ classes.enter \cap classes.entered # {}
        /\ classes.enterFrom # {} /\ classes.enterFrom \cap nodeClasses = {}
        /\ classes.enterTo \cap nodeClasses # {}

\* C4 as stated: after a completed leave transition the node carries no leave,
\* leaveFrom or leaveTo token.
C4_LeaveLeavesNoPhaseClass ==
    \A c \in Calls : (CompletedAlone(c) /\ ~tr[c].show) =>
        nodeClasses \cap (classes.leave \cup classes.leaveFrom \cup classes.leaveTo) = {}

\* C4, amended: after a completed leave transition the node carries the leaveTo
\* tokens that are not leave tokens, and no leave, leaveFrom or leaveTo token
\* besides those and the entered tokens, which the finish adds on leave as well.
C4_LeaveCompleted ==
    \A c \in Calls : (CompletedAlone(c) /\ ~tr[c].show) =>
        LET kept == classes.entered \cup (classes.leaveTo \ classes.leave)
        IN  /\ (classes.leaveTo \ classes.leave) \subseteq nodeClasses
            /\ (nodeClasses \cap (classes.leave \cup classes.leaveFrom \cup classes.leaveTo))
                   \subseteq kept

\* C4's case: a leave transition completed, with a leaveFrom token gone and a
\* leaveTo token still on the node.
C4_Witness ==
    \E c \in Calls :
        /\ CompletedAlone(c) /\ ~tr[c].show
        /\ classes.leaveFrom # {} /\ classes.leaveFrom \cap nodeClasses = {}
        /\ classes.leave # {} /\ classes.leave \cap nodeClasses = {}
        /\ classes.leaveTo \cap nodeClasses # {}

\* C5: when transition-duration and transition-delay both resolve to 0, the step
\* that applies the to classes also finishes the transition: the base classes are
\* stripped, the entered classes added and done invoked, with no listener or timer
\* left to wait for.
C5_ZeroDurationFinishesInStep ==
    [][\A c \in Calls :
          (tr[c].phase = "started" /\ tr'[c].phase # "started" /\ tr'[c].zero) =>
              /\ tr'[c].phase = "finished"
              /\ tr'[c].waiter = "none"
              /\ tr'[c].finishes = 1
              /\ tr'[c].hasDone => tr'[c].doneCount = 1
              /\ classes.entered \subseteq nodeClasses'
              /\ nodeClasses' \cap (Base(tr[c].show) \ classes.entered) = {}
              /\ (To(tr[c].show) \ Base(tr[c].show)) \subseteq nodeClasses']_vars

\* C5's case: a call with a done callback finished on the zero-duration path.
C5_Witness ==
    \E c \in Calls :
        /\ tr[c].zero /\ tr[c].phase = "finished" /\ tr[c].hasDone
        /\ tr[c].doneCount = 1 /\ Base(tr[c].show) # {}

(***************************************************************************)
(* Dialog: claims                                                          *)
(***************************************************************************)

\* How many times dialog d called close() in the event being handled.
CloseCalls(d) == Cardinality({i \in DOMAIN event.closed : event.closed[i] = d})

\* C6: when a dialog mounted inside an open dialog is open too, the inner one is the
\* leaf and the outer one the parent, and an Escape keydown or a click outside the
\* inner dialog calls close() on the inner dialog only, never on the outer one.
C6_NestedClosesLeafOnly ==
    \A b \in Dialogs :
        (HasParentDialog(b) /\ Enabled(dlg[b]) /\ Enabled(dlg[ParentOf(b)])) =>
            /\ Position(dlg[b]) = "leaf"
            /\ Position(dlg[ParentOf(b)]) = "parent"
            /\ CloseCalls(ParentOf(b)) = 0
            /\ (event.kind = "keydown" /\ event.target = Node("key", "Escape")
                    /\ ~event.prevented) => event.closed = <<b>>
            /\ (event.kind = "click" /\ Outside(dlg, b, event.target))
                    => event.closed = <<b>>

\* C6's case: with both dialogs open, a click on the outer dialog's panel closed
\* the inner dialog alone.
C6_Witness ==
    /\ Enabled(dlg["A"]) /\ Enabled(dlg["B"])
    /\ event.kind = "click"
    /\ event.target = Node("panel", "A")
    /\ event.closed = <<"B">>

\* C7: the step in which an outermost dialog opens sets the root's overflow to
\* 'hidden', and the step in which it closes or unmounts sets it back to the value
\* it had before that dialog opened, the empty string included.
C7_OverflowLockedAndRestored ==
    [][\A d \in Dialogs : ~HasParentDialog(d) =>
          /\ (~Enabled(dlg[d]) /\ Enabled(dlg'[d])) => page'.overflow = Keyword("hidden")
          /\ (Enabled(dlg[d]) /\ ~Enabled(dlg'[d])) => page'.overflow = dlg[d].before]_vars

\* C7's case: an outermost dialog opened on a root whose overflow was unset and has
\* closed again, and the overflow is unset.
C7_Witness ==
    \E d \in Dialogs :
        /\ ~HasParentDialog(d)
        /\ dlg[d].life = "mounted" /\ ~Enabled(dlg[d])
        /\ dlg[d].before = Unset
        /\ page.overflow = Unset

\* C8: in every state of a Dialog, dialogState is Open exactly when the component
\* has mounted and the resolved open value is true, the rendered element has role
\* 'dialog', and aria-modal is present exactly when dialogState is Open.
C8_OpenIffMountedAndTrue ==
    \A d \in Dialogs : Alive(dlg[d]) =>
        /\ DialogState(dlg[d]) = "Open"
               <=> (dlg[d].life = "mounted" /\ ResolvedOpen(dlg[d]) = "true")
        /\ Rendered(dlg[d]).role = "dialog"
        /\ Rendered(dlg[d]).ariaModal = "true" <=> DialogState(dlg[d]) = "Open"

\* C9: setup() throws exactly when there is neither an open prop nor an ambient
\* open/closed state, or when open resolves to something that is not a boolean;
\* otherwise it completes.
C9_SetupThrowsExactly ==
    \A d \in Dialogs :
        LET r == dlg[d]
            neither == r.openProp = Missing /\ r.ambient = "none"
            resolved == IF r.openProp # Missing THEN r.openProp
                        ELSE IF r.ambient = "Open" THEN "true"
                        ELSE IF r.ambient = "Closed" THEN "false"
                        ELSE Missing
            nonBoolean == resolved \notin {"true", "false"}
        IN  /\ r.life = "failed" => (neither \/ nonBoolean) /\ r.error # "none"
            /\ r.life = "created" => ~neither /\ ~nonBoolean /\ r.error = "none"

\* C9's case: a setup() that threw for an open prop that is not a boolean, beside
\* an ambient state.
C9_Witness ==
    \E d \in Dialogs :
        /\ dlg[d].life = "failed" /\ dlg[d].error = "not-boolean"
        /\ dlg[d].openProp = "text" /\ dlg[d].ambient = "Open"

\* C10: a click outside every allowed container of an open leaf dialog makes that
\* dialog call close() exactly once, no other dialog calls it, and the click target
\* is focused on the following tick, after the close() call.
C10_OutsideClickClosesOnce ==
    event.kind = "click" =>
        LET n == Len(event.closed)
            targets == [i \in 1..n |-> event.target]
        IN  /\ \A d \in Dialogs :
                  CloseCalls(d) =
                      IF /\ Enabled(dlg[d])
                         /\ Position(dlg[d]) = "leaf"
                         /\ Outside(dlg, d, event.target)
                      THEN 1 ELSE 0
            /\ \/ pendingFocus = targets /\ event.focus = <<>>
               \/ pendingFocus = <<>> /\ event.focus = targets

\* C10's case: the tick after a click outside an open leaf dialog, which called
\* close() once: the click target has been focused.
C10_Witness ==
    /\ event.kind = "click"
    /\ event.target = App
    /\ event.closed = <<"A">>
    /\ Position(dlg["A"]) = "leaf"
    /\ event.focus = <<App>>

\* C11: a DialogBackdrop whose mounted hook runs while no DialogPanel has
\* registered its node throws; one whose hook runs with a registered panel does
\* not.
C11_BackdropNeedsPanel ==
    [][\A d \in Dialogs :
          (dlg[d].backdrop = "none" /\ dlg'[d].backdrop # "none") =>
              (dlg'[d].backdrop = "threw" <=> ~dlg[d].panel)]_vars

\* C11's case: a backdrop's hook threw in a dialog that has no panel.
C11_Witness ==
    \E d \in Dialogs :
        dlg[d].life = "mounted" /\ dlg[d].backdrop = "threw" /\ ~dlg[d].panel

\* Dialog d is open and so is a dialog rendered inside it.
HasOpenChild(d) == \E x \in Dialogs : ParentOf(x) = d /\ Enabled(dlg[x])

\* C12 as stated: the features passed to the focus trap are None while the dialog
\* is closed, all of them, FocusLock included, while it is open and the leaf, and
\* RestoreFocus alone while it is open and the parent of another open dialog.
C12_LeafGetsFocusLock ==
    \A d \in Dialogs : Alive(dlg[d]) =>
        FocusTrapFeatures(dlg[d]) =
            IF DialogState(dlg[d]) = "Closed" THEN FeaturesNone
            ELSE IF HasOpenChild(d) THEN {"RestoreFocus"}
            ELSE FeaturesAll

\* C12, amended: the features are None while the dialog is closed, all of them
\* except FocusLock while it is open and the leaf, and RestoreFocus alone while it
\* is open and the parent of another open dialog.
C12_FocusTrapFeatures ==
    \A d \in Dialogs : Alive(dlg[d]) =>
        FocusTrapFeatures(dlg[d]) =
            IF DialogState(dlg[d]) = "Closed" THEN {}
            ELSE IF HasOpenChild(d) THEN {"RestoreFocus"}
            ELSE {"InitialFocus", "TabLock", "RestoreFocus"}

\* C12's case: an open parent that passes RestoreFocus alone, with the open leaf
\* inside it passing a set that has no FocusLock.
C12_Witness ==
    /\ Enabled(dlg["A"]) /\ Enabled(dlg["B"])
    /\ FocusTrapFeatures(dlg["A"]) = {"RestoreFocus"}
    /\ "FocusLock" \notin FocusTrapFeatures(dlg["B"])
    /\ "TabLock" \in FocusTrapFeatures(dlg["B"])

\* C13: a dialog nested inside another dialog never holds the scroll lock, and a
\* step in which only such a dialog opens or closes leaves the root's overflow and
\* padding-right as they were.
C13_NestedNeverLocks ==
    [][\A b \in Dialogs : ParentOf(b) # "none" =>
          /\ dlg'[b].lock = <<>>
          /\ ( /\ Enabled(dlg[b]) # Enabled(dlg'[b])
               /\ \A x \in Dialogs \ {b} : Enabled(dlg[x]) = Enabled(dlg'[x]) )
             => /\ page'.overflow = page.overflow
                /\ page'.paddingRight = page.paddingRight]_vars

\* C13's case: a nested dialog is open inside a closed one, holds no lock, and
\* the root's overflow is not 'hidden'.
C13_Witness ==
    /\ Enabled(dlg["B"])
    /\ dlg["A"].life = "mounted" /\ ~Enabled(dlg["A"])
    /\ dlg["B"].lock = <<>>
    /\ page.overflow # Keyword("hidden")

\* The value a style the lock of dialog d patched had when d opened.
ValueBeforeLock(d, property) ==
    IF property = "overflow" THEN dlg[d].before ELSE dlg[d].beforeStyles[property]

\* C14: in the step in which a dialog that holds the scroll lock leaves the Open
\* state, by a change of open or by unmount, every style its lock patched is back
\* at the value it had just before the lock, and the lock's cleanups are gone.
C14_LockRestoresEveryStyle ==
    [][\A d \in Dialogs :
          (dlg[d].lock # <<>> /\ Enabled(dlg[d]) /\ ~Enabled(dlg'[d])) =>
              /\ dlg'[d].lock = <<>>
              /\ \A i \in DOMAIN dlg[d].lock :
                    dlg[d].lock[i].kind = "style" =>
                        page'[dlg[d].lock[i].property]
                            = ValueBeforeLock(d, dlg[d].lock[i].property)]_vars

\* Call c is under way, its finish callback has not run, and no other call
\* touched the node.
RunningAlone(c) ==
    /\ tr[c].phase \in {"started", "waiting"}
    /\ \A b \in Calls \ {c} : tr[b].phase = "idle"

\* C15 as stated: while a transition runs, the node never carries a from token of
\* its direction together with a to token of its direction.
C15_FromNeverWithTo ==
    \A c \in Calls : RunningAlone(c) =>
        ~( /\ nodeClasses \cap From(tr[c].show) # {}
           /\ nodeClasses \cap To(tr[c].show) # {} )

\* C15, amended: in each phase the removal comes before the addition, so every
\* token the phase adds is on the node even when the phase's removal names it too;
\* and while a transition runs, the node never carries a from token that is not a
\* to token together with a to token that is neither a from nor a base token.
C15_RemovalBeforeAddition ==
    \A c \in Calls : RunningAlone(c) =>
        /\ tr[c].phase = "started" =>
               (Base(tr[c].show) \cup From(tr[c].show)) \subseteq nodeClasses
        /\ tr[c].phase = "waiting" => To(tr[c].show) \subseteq nodeClasses
        /\ ~( /\ nodeClasses \cap (From(tr[c].show) \ To(tr[c].show)) # {}
              /\ nodeClasses \cap (To(tr[c].show)
                                     \ (From(tr[c].show) \cup Base(tr[c].show))) # {} )

\* C15's case: after the frame step of a transition whose from and to sets share a
\* token, the shared token is on the node, beside a base token.
C15_Witness ==
    \E c \in Calls :
        /\ RunningAlone(c) /\ tr[c].phase = "waiting"
        /\ From(tr[c].show) \cap To(tr[c].show) # {}
        /\ To(tr[c].show) \subseteq nodeClasses
        /\ (Base(tr[c].show) \ To(tr[c].show)) \cap nodeClasses # {}

\* C16: the step that runs the synchronous part of a transition() call leaves on
\* the node, of the tokens of the seven class sets, exactly base and from of the
\* requested direction, whatever an earlier call on the node had left.
C16_CleanSlateAtStart ==
    [][\A c \in Calls :
          (tr[c].phase = "idle" /\ tr'[c].phase # "idle") =>
              nodeClasses' \cap AllClasses
                  = Base(tr'[c].show) \cup From(tr'[c].show)]_vars

\* C16's case: a second call in the other direction has started while the first
\* was waiting for its transition to end, and the first call's to token is gone.
C16_Witness ==
    /\ tr[2].phase = "started" /\ tr[2].frame
    /\ tr[1].phase = "waiting" /\ tr[1].waiter # "none"
    /\ tr[1].show # tr[2].show
    /\ To(tr[1].show) # {} /\ To(tr[1].show) \cap nodeClasses = {}
    /\ nodeClasses = Base(tr[2].show) \cup From(tr[2].show)

\* C17: in every dialog, titleId is null while no DialogTitle is mounted and is
\* the id of the mounted DialogTitle while one is mounted.
C17_TitleIdFollowsMountedTitle ==
    \A d \in Dialogs :
        /\ dlg[d].titles = {} => dlg[d].titleId = "null"
        /\ \A id \in TitleIds : dlg[d].titles = {id} => dlg[d].titleId = id

\* The open dialogs whose stack messages reach dialog d: d itself and the dialogs
\* rendered inside it.
OpenInScope(d) == {x \in Dialogs : Enabled(dlg[x]) /\ d \in StackScope(x)}

\* C18: a dialog's nestedDialogCount is the number of open dialogs in its stack
\* scope, itself included, and never negative; and in the step in which a nested
\* dialog leaves Open (by closing or by unmounting) under an open enclosing dialog,
\* the enclosing dialog's count is 1 again and its position 'leaf'.
C18_CountIsOpenDialogsInScope ==
    /\ [](\A d \in Dialogs :
            dlg[d].count = Cardinality(OpenInScope(d)) /\ dlg[d].count >= 0)
    /\ [][\A b \in Dialogs :
            LET a == ParentOf(b)
            IN  (a # "none" /\ Enabled(dlg[b]) /\ ~Enabled(dlg'[b]) /\ Enabled(dlg'[a]))
                    => (dlg'[a].count = 1 /\ Position(dlg'[a]) = "leaf")]_vars

\* C18's case: an open dialog with an open dialog nested in it counts two and is
\* a parent, while the nested one counts one.
C18_Witness ==
    \E b \in Dialogs :
        /\ ParentOf(b) # "none"
        /\ Enabled(dlg[b]) /\ Enabled(dlg[ParentOf(b)])
        /\ dlg[ParentOf(b)].count = 2 /\ Position(dlg[ParentOf(b)]) = "parent"
        /\ dlg[b].count = 1

\* The step dispatches a transitionend event with this target during call c.
Hears(c, target) == tr'[c].heard = Append(tr[c].heard, target)

\* The step leaves the node's classes and call c's progress as they were.
NoEffect(c) ==
    /\ nodeClasses' = nodeClasses
    /\ tr'[c].phase = tr[c].phase
    /\ tr'[c].finishes = tr[c].finishes
    /\ tr'[c].doneCount = tr[c].doneCount

\* The step runs call c's finish callback once.
Finishes(c) ==
    /\ tr'[c].phase = "finished"
    /\ tr'[c].finishes = tr[c].finishes + 1
    /\ nodeClasses' = FinishClasses(nodeClasses, tr[c].show)
    /\ tr'[c].doneCount = IF tr[c].hasDone /\ ~tr[c].called
                          THEN tr[c].doneCount + 1 ELSE tr[c].doneCount

\* C19 as stated: while a call with non-zero total duration waits, an event from a
\* descendant has no effect, the first event on the node itself finishes the call,
\* and later events have no effect.
C19_NodeEventFinishes ==
    [][\A c \in Calls :
          /\ (tr[c].phase = "waiting" /\ Hears(c, "descendant")) => NoEffect(c)
          /\ (tr[c].phase = "waiting" /\ Hears(c, "node")) => Finishes(c)
          /\ (tr[c].phase = "finished" /\ \E t \in EventTargets : Hears(c, t))
                => NoEffect(c)]_vars

\* C19, amended: the same, for a call that waits with the transitionend listener,
\* which is every waiting call outside test mode; in test mode no event has an effect.
C19_ListenerFiltersTarget ==
    [][\A c \in Calls :
          /\ (tr[c].phase = "waiting" /\ Hears(c, "descendant")) => NoEffect(c)
          /\ (tr[c].phase = "waiting" /\ Hears(c, "node")) =>
                IF testMode THEN NoEffect(c) ELSE Finishes(c) /\ tr'[c].waiter = "none"
          /\ (tr[c].phase = "finished" /\ \E t \in EventTargets : Hears(c, t))
                => NoEffect(c)]_vars

\* C19's case: outside test mode a call heard an event from a descendant and then
\* one on the node, and finished once, with done invoked once.
C19_Witness ==
    \E c \in Calls :
        /\ ~testMode /\ ~tr[c].zero
        /\ tr[c].heard = <<"descendant", "node">>
        /\ tr[c].phase = "finished" /\ tr[c].finishes = 1
        /\ tr[c].hasDone /\ tr[c].doneCount = 1
        /\ classes.entered # {} /\ classes.entered \subseteq nodeClasses

\* The dialogs that are rendered inside no other dialog.
Outermost == {d \in Dialogs : ~HasParentDialog(d)}

\* C20: with two outermost dialogs, the root's overflow is 'hidden' in every state
\* in which at least one of them is open, and in every state in which none is open
\* it is the value it had before the first of them opened.
C20_SiblingsShareLock ==
    /\ []((\E d \in Outermost : Enabled(dlg[d])) => page.overflow = Keyword("hidden"))
    /\ \A v \in {pg.overflow : pg \in PageInits} :
           (page.overflow = v) =>
               []((\A d \in Outermost : ~Enabled(dlg[d])) => page.overflow = v)

\* C21: once the handle a transition() call returned has been called, no step of
\* that call changes the node's classes, whether the handle was called before or
\* after the frame ran, and whether or not a later call has started on the node.
C21_CancelledCallLeavesClasses ==
    [][\A c \in Calls :
          (tr[c].cancelled /\ tr'[c] # tr[c]) => nodeClasses' = nodeClasses]_vars

\* What of dialog d the claim says close() leaves alone.
Kept(r) ==
    [dialogState |-> DialogState(r), count |-> r.count, titleId |-> r.titleId,
     lock |-> r.lock]

\* C22: a step in which close() is called, by the Escape key, an outside click, an
\* overlay click or a zero-rect intersection, records the emitted 'close' and
\* leaves every dialog's dialogState, nested count, titleId and scroll lock, and
\* the page's styles, as they were; and a dialog's dialogState changes only in a
\* step that changes its open prop, its ambient state or its mounted flag.
C22_CloseOnlyEmits ==
    [][/\ (event' # event /\ event'.closed # <<>>) =>
             /\ \A d \in Dialogs : Kept(dlg'[d]) = Kept(dlg[d])
             /\ page' = page
       /\ \A d \in Dialogs :
             DialogState(dlg'[d]) # DialogState(dlg[d]) =>
                 \/ dlg'[d].openProp # dlg[d].openProp
                 \/ dlg'[d].ambient # dlg[d].ambient
                 \/ dlg'[d].ready # dlg[d].ready]_vars

\* C22's case: the overlay of an open dialog that holds the scroll lock, has a
\* title and a dialog open inside it was clicked: close() was called for it and it
\* is still open, a parent, titled and locking.
C22_Witness ==
    \E d \in Dialogs :
        /\ event.kind = "overlay" /\ event.closed = <<d>>
        /\ Enabled(dlg[d])
        /\ dlg[d].count = 2
        /\ dlg[d].titleId # "null"
        /\ dlg[d].lock # <<>> /\ page.overflow = Keyword("hidden")

====
